---- MODULE Spec2Model ----
(***************************************************************************)
(* ElasticitySystem (examples/fem_system/fem_system_ex3): variable and     *)
(* constraint registration (init_data) and the three per-element           *)
(* assemblers element_time_derivative, side_time_derivative and            *)
(* mass_residual, together with the elasticity tensor.                     *)
(*                                                                         *)
(* Real numbers are modelled exactly as integers counting units of         *)
(* 1/RealDenom: with poisson_ratio = 0.3 and young_modulus = 100 the Lame  *)
(* constants are lambda_1 = 750/13 and lambda_2 = 500/13, so every value   *)
(* the assemblers compute from integer basis data is a multiple of 1/13.   *)
(* Residual and Jacobian entries are stored in these units.                *)
(***************************************************************************)
EXTENDS Integers, Sequences, FiniteSets, TLC

VARIABLES
  pc,                    \* where the driver is: constructed, initialized, elem, interior, side, mass
  _dim,                  \* ElasticitySystem::_dim
  time_order,            \* 1: FirstOrderUnsteadySolver, 2: SecondOrderUnsteadySolver
  mesh_boundary_ids,     \* get_mesh().get_boundary_info().get_boundary_ids(), unioned
  variables,             \* the system's variable table (names, index = position - 1)
  _u_var, _v_var, _w_var,
  second_order_vars,     \* variables passed to time_evolving(var, 2)
  dirichlet_boundaries,  \* the dof map's constraint table
  c,                     \* the FEMContext of the current element
  request_jacobian,      \* the flag of the current assembly pass
  pre,                   \* residual and Jacobian blocks before the last assembler call
  ret,                   \* what the last assembler call returned
  tensor_call            \* the last evaluations of elasticity_tensor: indices and values

vars == <<pc, _dim, time_order, mesh_boundary_ids, variables, _u_var, _v_var, _w_var,
          second_order_vars, dirichlet_boundaries, c, request_jacobian, pre, ret,
          tensor_call>>

----------------------------------------------------------------------------
(* Bounds of the model *)

\* local degrees of freedom per variable on an element (n_dof_indices)
NDofs == 2
\* quadrature points of the element and of the side rule (n_points)
NQp == 2
\* elements of the mesh
NElems == 4
\* solution states (displacement and acceleration coefficient vectors)
NSols == 3

Dofs == 0 .. NDofs - 1
Qps == 0 .. NQp - 1
Elems == 0 .. NElems - 1
Sols == 0 .. NSols - 1
Comps == 0 .. 2

----------------------------------------------------------------------------
(* Boundary ids *)

boundary_id_min_z == 0
boundary_id_min_y == 1
boundary_id_max_x == 2
boundary_id_max_y == 3
boundary_id_min_x == 4
boundary_id_max_z == 5
\* the ids of the header's table: distinct integers outside 0..5
node_boundary_id == 10
edge_boundary_id == 20
fixed_u_boundary_id == 30
fixed_v_boundary_id == 40
traction_boundary_id == 50
pressure_boundary_id == 60

AllBoundaryIds ==
  { boundary_id_min_z, boundary_id_min_y, boundary_id_max_x, boundary_id_max_y,
    boundary_id_min_x, boundary_id_max_z, node_boundary_id, edge_boundary_id,
    fixed_u_boundary_id, fixed_v_boundary_id, traction_boundary_id,
    pressure_boundary_id }

\* the meshes the system is initialised on, by the boundary ids they expose
MeshIdSets ==
  { {},
    { fixed_u_boundary_id, pressure_boundary_id },
    { boundary_id_min_x, fixed_v_boundary_id, traction_boundary_id },
    AllBoundaryIds }

----------------------------------------------------------------------------
(* Variable registration *)

\* up to three displacement variables and their three companions
MaxVars == 2 * 3
VarIds == 0 .. MaxVars - 1

\* System::add_variable: the new variable's index is the table's size
add_variable(table, name) == [var |-> Len(table), table |-> Append(table, name)]

\* DifferentiableSystem::get_second_order_dot_var: the variable itself under a
\* second-order solver, a distinct companion variable under a first-order one
get_second_order_dot_var(var) ==
  IF time_order = 2 THEN var ELSE Len(variables) + var

\* DirichletBoundary(b, variables, zf, LOCAL_VARIABLE_ORDER)
DirichletBoundary(b, vs) == [b |-> b, variables |-> vs, f |-> "ZeroFunction"]

\* std::set::count followed by insert, lines 64-73
InsertIfPresent(all_ids, id) == IF id \in all_ids THEN {id} ELSE {}

\* lines 59-73: the three fixed-boundary id sets
dirichlet_boundary_ids(all_ids) ==
  InsertIfPresent(all_ids, boundary_id_min_x)
    \cup InsertIfPresent(all_ids, node_boundary_id)
    \cup InsertIfPresent(all_ids, edge_boundary_id)
dirichlet_u_boundary_ids(all_ids) == InsertIfPresent(all_ids, fixed_u_boundary_id)
dirichlet_v_boundary_ids(all_ids) == InsertIfPresent(all_ids, fixed_v_boundary_id)

\* RegisterVariables with the unused W index aliased to U instead of to V
RegisterVariables_WAliasesU(dim) ==
  LET u == add_variable(<<>>, "Ux")
      v == IF dim > 1 THEN add_variable(u.table, "Uy")
                      ELSE [var |-> u.var, table |-> u.table]
      w == IF dim > 2 THEN add_variable(v.table, "Uz")
                      ELSE [var |-> u.var, table |-> v.table]
  IN  [table |-> w.table, u_var |-> u.var, v_var |-> v.var, w_var |-> w.var]

\* lines 43-51: the variables init_data registers and the three indices
RegisterVariables(dim) ==
  LET u == add_variable(<<>>, "Ux")
      v == IF dim > 1 THEN add_variable(u.table, "Uy")
                      ELSE [var |-> u.var, table |-> u.table]
      w == IF dim > 2 THEN add_variable(v.table, "Uz")
                      ELSE [var |-> v.var, table |-> v.table]
  IN  [table |-> w.table, u_var |-> u.var, v_var |-> v.var, w_var |-> w.var]

\* lines 75-106: the constraints init_data hands to add_dirichlet_boundary, in order
RegisterDirichlet(dim, all_ids, u, v, w) ==
  LET u_variable == <<u>>
      v_variable == <<v>>
      vars1 == <<u>>
      vars2 == IF dim > 1 THEN Append(vars1, v) ELSE vars1
      vars3 == IF dim > 2 THEN Append(vars2, w) ELSE vars2
      t0 == <<DirichletBoundary(dirichlet_boundary_ids(all_ids), vars3)>>
      t1 == IF dirichlet_u_boundary_ids(all_ids) # {}
              THEN Append(t0, DirichletBoundary(dirichlet_u_boundary_ids(all_ids), u_variable))
              ELSE t0
      t2 == IF dirichlet_v_boundary_ids(all_ids) # {}
              THEN Append(t1, DirichletBoundary(dirichlet_v_boundary_ids(all_ids), v_variable))
              ELSE t1
  IN  t2

----------------------------------------------------------------------------
(* Real numbers *)

\* one unit of a stored Real is 1/RealDenom
RealDenom == 13
\* an integer-valued Real in stored units
Real(x) == x * RealDenom

kronecker_delta(i, j) == IF i = j THEN 1 ELSE 0

\* lines 420-425 in stored units: lambda_1 = (100*0.3)/(1.3*0.4) = 750/13,
\* lambda_2 = 100/(2*1.3) = 500/13
lambda_1 == 750
lambda_2 == 500

\* elasticity_tensor without the term that symmetrises the shear part
elasticity_tensor_OneShearTerm(i, j, k, l) ==
  lambda_1 * kronecker_delta(i, j) * kronecker_delta(k, l)
    + lambda_2 * (kronecker_delta(i, k) * kronecker_delta(j, l))

\* ElasticitySystem::elasticity_tensor, lines 427-429
elasticity_tensor(i, j, k, l) ==
  lambda_1 * kronecker_delta(i, j) * kronecker_delta(k, l)
    + lambda_2 * (kronecker_delta(i, k) * kronecker_delta(j, l)
                    + kronecker_delta(i, l) * kronecker_delta(j, k))

----------------------------------------------------------------------------
(* Loops *)

\* for (k = from; k != to; k++) acc = Body(acc, k)
RECURSIVE For(_, _, _, _)
For(Body(_, _), acc, from, to) ==
  IF from >= to
    THEN acc
    ELSE LET step == Body(acc, from)
         IN  \* each iteration is carried out before the next one starts
             CASE DOMAIN step = DOMAIN acc -> For(Body, step, from + 1, to)

\* the sum of Term(k) for k in 0 .. n-1
RECURSIVE SumTo(_, _)
SumTo(Term(_), n) == IF n <= 0 THEN 0 ELSE Term(n - 1) + SumTo(Term, n - 1)

----------------------------------------------------------------------------
(* The finite-element data of the mesh's elements (FEBase) and the solution *)

\* u_elem_fe->get_JxW()[qp]: element 2 is degenerate (weights -1, 0, ...)
elem_JxW(e, qp) == IF e % 4 = 2 THEN qp - 1 ELSE 1 + ((e + qp) % 2)
\* u_elem_fe->get_phi()[i][qp]
elem_phi(e, i, qp) == ((e + 2 * i + qp) % 3) - 1
\* u_elem_fe->get_dphi()[i][qp](a)
elem_dphi(e, i, qp, a) == ((e + i + 2 * qp + a * (i + 1)) % 3) - 1
\* u_side_fe->get_JxW()[qp]: the side of element 3 is degenerate (weights -1, -2, ...)
side_JxW(e, qp) == IF e % 4 = 3 THEN 0 - 1 - qp ELSE 1 + ((e + qp + 1) % 2)
\* u_side_fe->get_phi()[i][qp]
side_phi(e, i, qp) == ((2 * e + i + qp) % 3) - 1
\* u_side_fe->get_normals()[qp](a): a signed coordinate direction of the active dimensions
side_normals(e, dim, qp, a) ==
  IF a = (e + qp) % dim THEN (IF qp % 2 = 0 THEN 1 ELSE 0 - 1) ELSE 0
\* the boundary ids the mesh generator tags the side of element e with
ElemSideTags(e) ==
  (IF e % 2 = 1 THEN {traction_boundary_id} ELSE {})
    \cup (IF e % 4 >= 2 THEN {pressure_boundary_id} ELSE {})

\* the local displacement coefficients of solution state s (state 0 is the zero field)
SolCoef(s) ==
  [v \in VarIds |-> [j \in Dofs |->
     IF s = 0 THEN 0 ELSE ((s * (v + 1) + j * (s + 1)) % 5) - 2]]
\* the local acceleration coefficients of solution state s
AccelCoef(s) == [v \in VarIds |-> [j \in Dofs |-> ((s + v + j) % 3) - 1]]

----------------------------------------------------------------------------
(* FEMContext *)

ZeroVec == [i \in Dofs |-> 0]
ZeroMat == [ij \in Dofs \X Dofs |-> 0]
ZeroResidual == [v \in VarIds |-> ZeroVec]
ZeroJacobian == [rc \in VarIds \X VarIds |-> ZeroMat]

\* the context before the first element is visited
NoContext ==
  [ elem |-> 0, side_ids |-> {},
    elem_solution |-> SolCoef(0), elem_accel |-> SolCoef(0),
    elem_solution_derivative |-> 1, elem_solution_accel_derivative |-> 1,
    elem_residual |-> ZeroResidual, elem_jacobian |-> ZeroJacobian,
    written_F |-> {}, written_K |-> {} ]

\* FEMContext::interior_gradient: the gradient of the interpolated solution
interior_gradient(ctx, var, qp) ==
  [l \in Comps |->
     SumTo(LAMBDA j : ctx.elem_solution[var][j] * elem_dphi(ctx.elem, j, qp, l), NDofs)]

\* FEMContext::interior_accel: the interpolated second time derivative
interior_accel(ctx, var, qp) ==
  SumTo(LAMBDA j : ctx.elem_accel[var][j] * elem_phi(ctx.elem, j, qp), NDofs)

has_side_boundary_id(ctx, id) == id \in ctx.side_ids

\* F(i) += val on the block get_elem_residual(var)
AddF(ctx, var, i, val) ==
  [ctx EXCEPT !.elem_residual[var][i] = @ + val,
              !.written_F = @ \cup {var}]

\* K(i,j) += val on the block get_elem_jacobian(row, col)
AddK(ctx, row, col, i, j, val) ==
  [ctx EXCEPT !.elem_jacobian[<<row, col>>][<<i, j>>] = @ + val,
              !.written_K = @ \cup {<<row, col>>}]

----------------------------------------------------------------------------
(* The rate variables *)

\* the U equation assembled into the displacement variable's own blocks
u_dot_var_IsDisplacementVar == _u_var

\* lines 151-153, 281-283 and 347-349: the variable whose residual block and
\* Jacobian rows a displacement variable's equation is assembled into
u_dot_var == get_second_order_dot_var(_u_var)
v_dot_var == get_second_order_dot_var(_v_var)
w_dot_var == get_second_order_dot_var(_w_var)

----------------------------------------------------------------------------
(* element_time_derivative *)

ZeroGradient == [l \in Comps |-> 0]
\* the body force along the second axis instead of the third
body_force_AlongY == [l \in Comps |-> IF l = 1 THEN 0 - 1 ELSE 0]
\* Gradient body_force(0.0, 0.0, -1.0), line 184
body_force == [l \in Comps |-> IF l = 2 THEN 0 - 1 ELSE 0]

\* lines 188-196: Tensor grad_U(grad_u, grad_v, grad_w)
grad_U(ctx, qp) ==
  <<interior_gradient(ctx, _u_var, qp),
    IF _dim > 1 THEN interior_gradient(ctx, _v_var, qp) ELSE ZeroGradient,
    IF _dim > 2 THEN interior_gradient(ctx, _w_var, qp) ELSE ZeroGradient>>

\* lines 198-203: tau(i,j), zero outside the active dimensions
tau(gU, i, j) ==
  IF i < _dim /\ j < _dim
    THEN SumTo(LAMBDA k : SumTo(LAMBDA l :
           elasticity_tensor(i, j, k, l) * gU[k + 1][l], _dim), _dim)
    ELSE 0

\* c0 without the time solver's solution-derivative factor
c0_NoDerivativeFactor(ctx, qp, j, beta) == elem_dphi(ctx.elem, j, qp, beta)

\* line 222: grad_phi[j][qp](beta)*c.get_elem_solution_derivative()
c0(ctx, qp, j, beta) == elem_dphi(ctx.elem, j, qp, beta) * ctx.elem_solution_derivative

\* lines 224-250: the Jacobian terms of one (qp, i, alpha, j, beta)
etd_jacobian_term(ctx, qp, i, alpha, j, beta) ==
  LET JxW(q) == elem_JxW(ctx.elem, q)
      grad_phi(n, q, a) == elem_dphi(ctx.elem, n, q, a)
      d(a, b) == elasticity_tensor(a, alpha, b, beta) * c0(ctx, qp, j, beta)
                   * grad_phi(i, qp, alpha) * JxW(qp)
      k1 == AddK(ctx, u_dot_var, _u_var, i, j, d(0, 0))
      k2 == IF _dim > 1
              THEN AddK(AddK(AddK(k1, u_dot_var, _v_var, i, j, d(0, 1)),
                                      v_dot_var, _u_var, i, j, d(1, 0)),
                                      v_dot_var, _v_var, i, j, d(1, 1))
              ELSE k1
      k3 == IF _dim > 2
              THEN AddK(AddK(AddK(AddK(AddK(k2,
                     u_dot_var, _w_var, i, j, d(0, 2)),
                     v_dot_var, _w_var, i, j, d(1, 2)),
                     w_dot_var, _u_var, i, j, d(2, 0)),
                     w_dot_var, _v_var, i, j, d(2, 1)),
                     w_dot_var, _w_var, i, j, d(2, 2))
              ELSE k2
  IN  k3

\* lines 207-254: the body of the alpha loop
etd_alpha(rj, ctx, gU, qp, i, alpha) ==
  LET JxW(q) == elem_JxW(ctx.elem, q)
      phi(n, q) == elem_phi(ctx.elem, n, q)
      grad_phi(n, q, a) == elem_dphi(ctx.elem, n, q, a)
      r(a) == (tau(gU, a, alpha) * grad_phi(i, qp, alpha)
                 - Real(body_force[a] * phi(i, qp))) * JxW(qp)
      f1 == AddF(ctx, u_dot_var, i, r(0))
      f2 == IF _dim > 1 THEN AddF(f1, v_dot_var, i, r(1)) ELSE f1
      f3 == IF _dim > 2 THEN AddF(f2, w_dot_var, i, r(2)) ELSE f2
  IN  IF rj
        THEN For(LAMBDA aj, j :
               For(LAMBDA ab, beta : etd_jacobian_term(ab, qp, i, alpha, j, beta),
                   aj, 0, _dim),
               f3, 0, NDofs)
        ELSE f3

\* lines 186-257: the body of the qp loop
etd_qp(rj, ctx, qp) ==
  LET gU == grad_U(ctx, qp)
  IN  For(LAMBDA ai, i :
        For(LAMBDA aa, alpha : etd_alpha(rj, aa, gU, qp, i, alpha),
            ai, 0, _dim),
        ctx, 0, NDofs)

\* ElasticitySystem::element_time_derivative, lines 137-261
element_time_derivative(rj, ctx) ==
  [ ret |-> rj,
    ctx |-> For(LAMBDA aq, qp : etd_qp(rj, aq, qp), ctx, 0, NQp) ]

----------------------------------------------------------------------------
(* side_time_derivative *)

\* Real pressure = 100, line 305
pressure == 100

\* traction with the constant load always along the third axis
traction_AlwaysAlongZ(ctx, qp) ==
  IF has_side_boundary_id(ctx, pressure_boundary_id)
    THEN [a \in Comps |-> pressure * side_normals(ctx.elem, _dim, qp, a)]
    ELSE [a \in Comps |-> IF a = 2 THEN 0 - 1 ELSE 0]

\* lines 306-315: the load at quadrature point qp
traction(ctx, qp) ==
  IF has_side_boundary_id(ctx, pressure_boundary_id)
    THEN [a \in Comps |-> pressure * side_normals(ctx.elem, _dim, qp, a)]
    ELSE [a \in Comps |-> IF a = _dim - 1 THEN 0 - 1 ELSE 0]

\* lines 317-324: the body of the i loop
std_dof(ctx, qp, i) ==
  LET JxW(q) == side_JxW(ctx.elem, q)
      phi(n, q) == side_phi(ctx.elem, n, q)
      t == traction(ctx, qp)
      f1 == AddF(ctx, u_dot_var, i, 0 - Real(t[0] * phi(i, qp) * JxW(qp)))
      f2 == IF _dim > 1 THEN AddF(f1, v_dot_var, i, 0 - Real(t[1] * phi(i, qp) * JxW(qp))) ELSE f1
      f3 == IF _dim > 2 THEN AddF(f2, w_dot_var, i, 0 - Real(t[2] * phi(i, qp) * JxW(qp))) ELSE f2
  IN  f3

\* lines 312-325: the body of the qp loop
std_qp(ctx, qp) == For(LAMBDA ai, i : std_dof(ai, qp, i), ctx, 0, NDofs)

\* lines 268-326: the load applied on a tagged side
std_apply(ctx) ==
  IF has_side_boundary_id(ctx, traction_boundary_id)
     \/ has_side_boundary_id(ctx, pressure_boundary_id)
    THEN For(LAMBDA aq, qp : std_qp(aq, qp), ctx, 0, NQp)
    ELSE ctx

\* side_time_derivative answering "no Jacobian" whatever was requested
side_time_derivative_ReportsFalse(rj, ctx) == [ret |-> FALSE, ctx |-> std_apply(ctx)]

\* ElasticitySystem::side_time_derivative, lines 263-331
side_time_derivative(rj, ctx) == [ret |-> rj, ctx |-> std_apply(ctx)]

----------------------------------------------------------------------------
(* mass_residual *)

\* the density, a fixed material constant
_rho == 1

\* the residual terms written through all three handles, whatever the dimension
mr_residual_terms_Unguarded(ctx, qp, i) ==
  LET JxW(q) == elem_JxW(ctx.elem, q)
      phi(n, q) == elem_phi(ctx.elem, n, q)
      u_ddot == interior_accel(ctx, u_dot_var, qp)
      v_ddot == interior_accel(ctx, v_dot_var, qp)
      w_ddot == interior_accel(ctx, w_dot_var, qp)
      f1 == AddF(ctx, u_dot_var, i, Real(_rho * u_ddot * phi(i, qp) * JxW(qp)))
      f2 == AddF(f1, v_dot_var, i, Real(_rho * v_ddot * phi(i, qp) * JxW(qp)))
      f3 == AddF(f2, w_dot_var, i, Real(_rho * w_ddot * phi(i, qp) * JxW(qp)))
  IN  f3

\* lines 380-393: the residual terms of one (qp, i)
mr_residual_terms(ctx, qp, i) ==
  LET JxW(q) == elem_JxW(ctx.elem, q)
      phi(n, q) == elem_phi(ctx.elem, n, q)
      u_ddot == interior_accel(ctx, u_dot_var, qp)
      v_ddot == interior_accel(ctx, v_dot_var, qp)
      w_ddot == interior_accel(ctx, w_dot_var, qp)
      f1 == AddF(ctx, u_dot_var, i, Real(_rho * u_ddot * phi(i, qp) * JxW(qp)))
      f2 == IF _dim > 1 THEN AddF(f1, v_dot_var, i, Real(_rho * v_ddot * phi(i, qp) * JxW(qp))) ELSE f1
      f3 == IF _dim > 2 THEN AddF(f2, w_dot_var, i, Real(_rho * w_ddot * phi(i, qp) * JxW(qp))) ELSE f2
  IN  f3

\* lines 397-407: the Jacobian terms of one (qp, i), over the j loop
mr_jacobian_terms(ctx, qp, i) ==
  LET JxW(q) == elem_JxW(ctx.elem, q)
      phi(n, q) == elem_phi(ctx.elem, n, q)
      jac(a, j) ==
        LET jac_term == Real(_rho * phi(i, qp) * phi(j, qp) * JxW(qp))
                          * ctx.elem_solution_accel_derivative
            k1 == AddK(a, u_dot_var, u_dot_var, i, j, jac_term)
            k2 == IF _dim > 1 THEN AddK(k1, v_dot_var, v_dot_var, i, j, jac_term) ELSE k1
            k3 == IF _dim > 2 THEN AddK(k2, w_dot_var, w_dot_var, i, j, jac_term) ELSE k2
        IN  k3
  IN  For(jac, ctx, 0, NDofs)

\* mr_dof accumulating the Jacobian whether or not it was requested
mr_dof_AlwaysJacobian(rj, ctx, qp, i) ==
  mr_jacobian_terms(mr_residual_terms(ctx, qp, i), qp, i)

\* lines 387-409: the body of the i loop
mr_dof(rj, ctx, qp, i) ==
  IF rj THEN mr_jacobian_terms(mr_residual_terms(ctx, qp, i), qp, i)
        ELSE mr_residual_terms(ctx, qp, i)

\* lines 374-410: the body of the qp loop
mr_qp(rj, ctx, qp) == For(LAMBDA ai, i : mr_dof(rj, ai, qp, i), ctx, 0, NDofs)

\* ElasticitySystem::mass_residual, lines 333-414
mass_residual(rj, ctx) ==
  [ ret |-> rj,
    ctx |-> For(LAMBDA aq, qp : mr_qp(rj, aq, qp), ctx, 0, NQp) ]

----------------------------------------------------------------------------
(* The system and its driver *)

NoTensorCall == [args |-> <<0, 0, 0, 0>>, swap |-> "none", value |-> 0, swapped |-> 0]

Init ==
  /\ pc = "constructed"
  /\ _dim \in 1 .. 3
  /\ time_order \in {1, 2}
  /\ mesh_boundary_ids \in MeshIdSets
  /\ variables = <<>>
  /\ _u_var = 0 /\ _v_var = 0 /\ _w_var = 0
  /\ second_order_vars = {}
  /\ dirichlet_boundaries = <<>>
  /\ c = NoContext
  /\ request_jacobian = FALSE
  /\ pre = [elem_residual |-> ZeroResidual, elem_jacobian |-> ZeroJacobian]
  /\ ret = FALSE
  /\ tensor_call = NoTensorCall

\* ElasticitySystem::init_data
init_data ==
  /\ pc = "constructed"
  /\ LET r == RegisterVariables(_dim)
     IN  /\ variables' = r.table
         /\ _u_var' = r.u_var
         /\ _v_var' = r.v_var
         /\ _w_var' = r.w_var
         /\ second_order_vars' = {r.u_var, r.v_var, r.w_var}
         /\ dirichlet_boundaries' =
              RegisterDirichlet(_dim, mesh_boundary_ids, r.u_var, r.v_var, r.w_var)
  /\ pc' = "initialized"
  /\ UNCHANGED <<_dim, time_order, mesh_boundary_ids, c, request_jacobian, pre, ret, tensor_call>>

\* FEMContext::pre_fe_reinit and elem_fe_reinit for element e under solution state s
\* and the time solver's derivative factors; the blocks are zeroed
elem_reinit(e, s, t, rj) ==
  /\ pc = "initialized"
  /\ c' = [ elem |-> e,
            side_ids |-> ElemSideTags(e) \cap mesh_boundary_ids,
            elem_solution |-> SolCoef(s), elem_accel |-> AccelCoef(s),
            elem_solution_derivative |-> 1 + t,
            elem_solution_accel_derivative |-> 1 + 2 * t,
            elem_residual |-> ZeroResidual, elem_jacobian |-> ZeroJacobian,
            written_F |-> {}, written_K |-> {} ]
  /\ request_jacobian' = rj
  /\ pre' = [elem_residual |-> ZeroResidual, elem_jacobian |-> ZeroJacobian]
  /\ ret' = FALSE
  /\ pc' = "elem"
  /\ UNCHANGED <<_dim, time_order, mesh_boundary_ids, variables, _u_var, _v_var, _w_var,
                 second_order_vars, dirichlet_boundaries, tensor_call>>

\* the blocks and write sets an assembler call starts from
Entering(ctx) == [ctx EXCEPT !.written_F = {}, !.written_K = {}]

Call(result, to) ==
  /\ c' = result.ctx
  /\ ret' = result.ret
  /\ pre' = [elem_residual |-> c.elem_residual, elem_jacobian |-> c.elem_jacobian]
  /\ pc' = to
  /\ UNCHANGED <<_dim, time_order, mesh_boundary_ids, variables, _u_var, _v_var, _w_var,
                 second_order_vars, dirichlet_boundaries, request_jacobian, tensor_call>>

call_element_time_derivative ==
  /\ pc = "elem"
  /\ Call(element_time_derivative(request_jacobian, Entering(c)), "interior")

call_side_time_derivative ==
  /\ pc = "interior"
  /\ Call(side_time_derivative(request_jacobian, Entering(c)), "side")

call_mass_residual ==
  /\ pc = "side"
  /\ Call(mass_residual(request_jacobian, Entering(c)), "mass")

\* the assembly loop hands the element's blocks to the global system and moves on
elem_done ==
  /\ pc = "mass"
  /\ c' = NoContext
  /\ request_jacobian' = FALSE
  /\ pre' = [elem_residual |-> ZeroResidual, elem_jacobian |-> ZeroJacobian]
  /\ ret' = FALSE
  /\ pc' = "initialized"
  /\ UNCHANGED <<_dim, time_order, mesh_boundary_ids, variables, _u_var, _v_var, _w_var,
                 second_order_vars, dirichlet_boundaries, tensor_call>>

Next ==
  \/ init_data
  \/ \E e \in Elems, s \in Sols, t \in {0, 1}, rj \in BOOLEAN : elem_reinit(e, s, t, rj)
  \/ call_element_time_derivative
  \/ call_side_time_derivative
  \/ call_mass_residual
  \/ elem_done

Spec == Init /\ [][Next]_vars

----------------------------------------------------------------------------
(* The elasticity tensor on its own: every index tuple, against each swap *)

Swapped(args, swap) ==
  CASE swap = "ij" -> <<args[2], args[1], args[3], args[4]>>
    [] swap = "kl" -> <<args[1], args[2], args[4], args[3]>>
    [] swap = "pairs" -> <<args[3], args[4], args[1], args[2]>>

InitTensor == Init /\ _dim = 3 /\ time_order = 2 /\ mesh_boundary_ids = {}

call_elasticity_tensor(args, swap) ==
  /\ tensor_call' =
       [ args |-> args, swap |-> swap,
         value |-> elasticity_tensor(args[1], args[2], args[3], args[4]),
         swapped |-> LET a == Swapped(args, swap)
                     IN  elasticity_tensor(a[1], a[2], a[3], a[4]) ]
  /\ UNCHANGED <<pc, _dim, time_order, mesh_boundary_ids, variables, _u_var, _v_var, _w_var,
                 second_order_vars, dirichlet_boundaries, c, request_jacobian, pre, ret>>

NextTensor ==
  \E args \in Comps \X Comps \X Comps \X Comps, swap \in {"ij", "kl", "pairs"} :
    call_elasticity_tensor(args, swap)

SpecTensor == InitTensor /\ [][NextTensor]_vars

----------------------------------------------------------------------------
(* Properties *)

\* the displacement variable and the rate variable of component comp
DispVar(comp) == <<_u_var, _v_var, _w_var>>[comp + 1]
RateVar(comp) == get_second_order_dot_var(DispVar(comp))
ActiveComps == 0 .. _dim - 1

\* the context the last assembler call started from
PreContext ==
  [c EXCEPT !.elem_residual = pre.elem_residual,
            !.elem_jacobian = pre.elem_jacobian,
            !.written_F = {}, !.written_K = {}]

ResidualUnchanged == c.elem_residual = pre.elem_residual
JacobianUnchanged == c.elem_jacobian = pre.elem_jacobian

\* C1: after init_data the variable indices follow the aliasing rule of the
\* dimension (d=1: V and W equal U; d=2: W equals V, V differs from U; d=3: the
\* three are pairwise distinct) and exactly d variables are registered.
C1_Aliasing ==
  pc # "constructed" =>
    /\ _dim = 1 => (_v_var = _u_var /\ _w_var = _u_var)
    /\ _dim = 2 => (_w_var = _v_var /\ _v_var # _u_var)
    /\ _dim = 3 => (_u_var # _v_var /\ _v_var # _w_var /\ _u_var # _w_var)
    /\ Len(variables) = _dim
    /\ Cardinality({_u_var, _v_var, _w_var}) = _dim

C1_Witness == pc = "initialized" /\ _dim = 2 /\ _w_var = _v_var /\ variables = <<"Ux", "Uy">>

\* C2: init_data registers a Dirichlet constraint only for a fixed-boundary id
\* set that meets the mesh's boundary ids, and registers none at all when the
\* mesh exposes no boundary id.
C2_OnlyNonEmptySets ==
  pc # "constructed" =>
    /\ \A n \in 1 .. Len(dirichlet_boundaries) :
         dirichlet_boundaries[n].b \cap mesh_boundary_ids # {}
    /\ mesh_boundary_ids = {} => dirichlet_boundaries = <<>>

\* C3 as stated: side_time_derivative returns false on every call.
C3_AlwaysReportsNoJacobian == pc = "side" => ret = FALSE

\* C3 as amended: side_time_derivative returns the request flag on every call,
\* tagged side or not, and writes no Jacobian entry.
C3_ReturnsRequestAndLeavesJacobian ==
  pc = "side" =>
    /\ ret = request_jacobian
    /\ JacobianUnchanged
    /\ c.written_K = {}

C3_Witness ==
  /\ pc = "side" /\ request_jacobian /\ ret = TRUE
  /\ traction_boundary_id \in c.side_ids
  /\ ~ResidualUnchanged

\* C4: element_time_derivative and mass_residual called without a Jacobian
\* request leave every Jacobian block as it was and give the residual blocks the
\* values a call with the request gives them; the call returns the flag.
C4_NoRequestNoJacobian ==
  /\ pc \in {"interior", "mass"} => ret = request_jacobian
  /\ (pc = "interior" /\ ~request_jacobian) =>
       /\ JacobianUnchanged
       /\ c.elem_residual = element_time_derivative(TRUE, PreContext).ctx.elem_residual
  /\ (pc = "mass" /\ ~request_jacobian) =>
       /\ JacobianUnchanged
       /\ c.elem_residual = mass_residual(TRUE, PreContext).ctx.elem_residual

C4_Witness ==
  /\ pc = "mass" /\ ~request_jacobian /\ ret = FALSE
  /\ ~ResidualUnchanged
  /\ mass_residual(TRUE, PreContext).ctx.elem_jacobian # pre.elem_jacobian

\* the displacement gradient vanishes at every quadrature point
ZeroDisplacementGradient ==
  \A qp \in Qps : grad_U(c, qp) = <<ZeroGradient, ZeroGradient, ZeroGradient>>

\* C5 as stated: with a zero displacement gradient and zero residual blocks,
\* element_time_derivative leaves every residual entry zero, in every dimension.
C5_ZeroFieldZeroResidual ==
  (pc = "interior" /\ ZeroDisplacementGradient /\ pre.elem_residual = ZeroResidual) =>
    c.elem_residual = ZeroResidual

\* C5 as amended: under the same conditions every residual entry is zero for
\* d = 1 and d = 2, and for d = 3 every entry outside the W component's block is
\* zero (that block receives the body force).
C5_ZeroFieldZeroResidualButBodyForce ==
  (pc = "interior" /\ ZeroDisplacementGradient /\ pre.elem_residual = ZeroResidual) =>
    \A v \in VarIds :
      (_dim < 3 \/ v # RateVar(2)) => c.elem_residual[v] = ZeroVec

C5_Witness ==
  /\ pc = "interior" /\ ZeroDisplacementGradient /\ pre.elem_residual = ZeroResidual
  /\ _dim = 3
  /\ c.elem_residual[RateVar(2)] # ZeroVec
  /\ c.elem_residual[RateVar(0)] = ZeroVec

\* C6: elasticity_tensor(i,j,k,l) is unchanged by swapping i with j, k with l,
\* and the pair (i,j) with the pair (k,l), for all indices in 0..2.
C6_TensorSymmetry ==
  tensor_call.swap # "none" => tensor_call.value = tensor_call.swapped

C6_Witness ==
  /\ tensor_call.args = <<0, 1, 1, 0>> /\ tensor_call.swap = "ij"
  /\ tensor_call.value = lambda_2

\* C7: an assembler called on quadrature weights of which one is zero or
\* negative stops with an error before it accumulates: every residual and
\* Jacobian block is as before the call.
C7_DegenerateWeightsLeaveBlocks ==
  /\ (pc \in {"interior", "mass"} /\ \E qp \in Qps : elem_JxW(c.elem, qp) <= 0) =>
       (ResidualUnchanged /\ JacobianUnchanged)
  /\ (pc = "side" /\ \E qp \in Qps : side_JxW(c.elem, qp) <= 0) =>
       (ResidualUnchanged /\ JacobianUnchanged)

\* the load the boundary assembler is to apply in component comp at qp
SideLoad(comp, qp) ==
  IF pressure_boundary_id \in c.side_ids
    THEN pressure * side_normals(c.elem, _dim, qp, comp)
    ELSE IF comp = _dim - 1 THEN 0 - 1 ELSE 0

\* what the boundary assembler is to subtract from entry i of block v
SideLoadTerm(v, i) ==
  SumTo(LAMBDA comp :
          IF comp < _dim /\ RateVar(comp) = v
            THEN SumTo(LAMBDA qp :
                   Real(SideLoad(comp, qp) * side_phi(c.elem, i, qp) * side_JxW(c.elem, qp)),
                   NQp)
            ELSE 0,
        3)

\* C8: on a side with neither the traction nor the pressure id
\* side_time_derivative changes nothing; otherwise each active component c gets
\* F_c(i) -= load(c)*phi(i, qp)*JxW(qp) with the pressure load on a pressure side
\* and the constant traction on a traction-only side, and nothing else changes.
C8_SideLoad ==
  pc = "side" =>
    /\ JacobianUnchanged
    /\ IF c.side_ids \cap {traction_boundary_id, pressure_boundary_id} = {}
         THEN ResidualUnchanged
         ELSE \A v \in VarIds, i \in Dofs :
                c.elem_residual[v][i] = pre.elem_residual[v][i] - SideLoadTerm(v, i)

C8_Witness ==
  /\ pc = "side" /\ c.side_ids = {traction_boundary_id} /\ _dim = 2
  /\ c.elem_residual[RateVar(1)] # pre.elem_residual[RateVar(1)]
  /\ c.elem_residual[RateVar(0)] = pre.elem_residual[RateVar(0)]

\* the interior residual after dof j of component k is raised by one
PerturbedResidual(k, j) ==
  element_time_derivative(FALSE,
    [PreContext EXCEPT !.elem_solution[DispVar(k)][j] = @ + 1]).ctx.elem_residual

\* C9: from zero blocks, the Jacobian element_time_derivative accumulates in
\* block (rate(comp), k) at (i,j) is the solution-derivative factor times the
\* change of F_comp(i) under a unit increase of dof j of component k.
C9_JacobianIsLinearization ==
  (pc = "interior" /\ request_jacobian
     /\ pre.elem_residual = ZeroResidual /\ pre.elem_jacobian = ZeroJacobian) =>
    \A k \in ActiveComps, j \in Dofs :
      LET Fp == PerturbedResidual(k, j)
      IN  \A comp \in ActiveComps, i \in Dofs :
            c.elem_jacobian[<<RateVar(comp), DispVar(k)>>][<<i, j>>]
              = c.elem_solution_derivative
                  * (Fp[RateVar(comp)][i] - c.elem_residual[RateVar(comp)][i])

C9_Witness ==
  /\ pc = "interior" /\ request_jacobian /\ _dim = 3 /\ time_order = 1
  /\ c.elem_solution_derivative = 2
  /\ c.elem_jacobian[<<RateVar(0), DispVar(1)>>] # ZeroMat
  /\ c.elem_jacobian[<<RateVar(2), DispVar(2)>>] # ZeroMat

\* the rate variables of the active displacement variables
RateVars == {RateVar(comp) : comp \in ActiveComps}

\* C10: every residual block an assembler writes, and the row of every Jacobian
\* block it writes, is the rate variable of an active displacement variable,
\* under a second-order and under a first-order solver.
C10_RowsAreRateVariables ==
  pc \in {"interior", "side", "mass"} =>
    /\ c.written_F \subseteq RateVars
    /\ {rc[1] : rc \in c.written_K} \subseteq RateVars
    /\ \A v \in VarIds \ RateVars :
         /\ c.elem_residual[v] = pre.elem_residual[v]
         /\ \A col \in VarIds : c.elem_jacobian[<<v, col>>] = pre.elem_jacobian[<<v, col>>]

C10_Witness ==
  /\ pc = "mass" /\ time_order = 1 /\ _dim = 2 /\ request_jacobian
  /\ c.written_F = {2, 3}
  /\ c.written_K = {<<2, 2>>, <<3, 3>>}

----------------------------------------------------------------------------
(* The reference assembly of a problem in _dim dimensions: one variable per   *)
(* active component, one Jacobian block per pair of active components, no     *)
(* handle standing for anything else.                                         *)

\* the derivative along axis l of displacement component k at a quadrature point
RefGradient(k, l, qp) ==
  SumTo(LAMBDA j : c.elem_solution[DispVar(k)][j] * elem_dphi(c.elem, j, qp, l), NDofs)

\* the stress of the reference problem at a quadrature point
RefTau(a, alpha, qp) ==
  SumTo(LAMBDA k : SumTo(LAMBDA l :
          elasticity_tensor(a, alpha, k, l) * RefGradient(k, l, qp), _dim), _dim)

\* what one quadrature point adds to entry i of the residual of component comp
RefF(comp, i, qp) ==
  CASE pc = "interior" ->
         (SumTo(LAMBDA alpha : RefTau(comp, alpha, qp) * elem_dphi(c.elem, i, qp, alpha), _dim)
            - Real(body_force[comp] * elem_phi(c.elem, i, qp))) * elem_JxW(c.elem, qp)
    [] pc = "side" ->
         IF c.side_ids \cap {traction_boundary_id, pressure_boundary_id} # {}
           THEN 0 - Real(SideLoad(comp, qp) * side_phi(c.elem, i, qp) * side_JxW(c.elem, qp))
           ELSE 0
    [] pc = "mass" ->
         Real(_rho * interior_accel(c, RateVar(comp), qp)
                * elem_phi(c.elem, i, qp) * elem_JxW(c.elem, qp))

\* what one quadrature point adds to entry (i, j) of the Jacobian block that
\* couples the equation of component comp to the unknown of component k
RefK(comp, k, i, j, qp) ==
  CASE pc = "interior" ->
         SumTo(LAMBDA alpha : SumTo(LAMBDA beta :
                 elasticity_tensor(comp, alpha, k, beta)
                   * elem_dphi(c.elem, j, qp, beta) * c.elem_solution_derivative
                   * elem_dphi(c.elem, i, qp, alpha) * elem_JxW(c.elem, qp),
                 _dim), _dim)
    [] pc = "side" -> 0
    [] pc = "mass" ->
         IF comp = k
           THEN Real(_rho * elem_phi(c.elem, i, qp) * elem_phi(c.elem, j, qp)
                       * elem_JxW(c.elem, qp)) * c.elem_solution_accel_derivative
           ELSE 0

\* the column variable of component k: the rate variable in the mass matrix,
\* the displacement variable elsewhere
RefCol(k) == IF pc = "mass" THEN RateVar(k) ELSE DispVar(k)

\* the reference contributions of one quadrature point, laid out on the blocks
RefBlockF(v, i, qp) ==
  SumTo(LAMBDA comp : IF RateVar(comp) = v THEN RefF(comp, i, qp) ELSE 0, _dim)

RefBlockK(row, col, i, j, qp) ==
  IF request_jacobian
    THEN SumTo(LAMBDA comp : SumTo(LAMBDA k :
                 IF RateVar(comp) = row /\ RefCol(k) = col
                   THEN RefK(comp, k, i, j, qp) ELSE 0,
                 _dim), _dim)
    ELSE 0

\* the context of the last call with empty blocks
EmptyContext ==
  [c EXCEPT !.elem_residual = ZeroResidual, !.elem_jacobian = ZeroJacobian,
            !.written_F = {}, !.written_K = {}]

\* what the last assembler adds at the single quadrature point qp
PerQp(qp) ==
  CASE pc = "interior" -> etd_qp(request_jacobian, EmptyContext, qp)
    [] pc = "side" ->
         IF has_side_boundary_id(c, traction_boundary_id)
            \/ has_side_boundary_id(c, pressure_boundary_id)
           THEN std_qp(EmptyContext, qp) ELSE EmptyContext
    [] pc = "mass" -> mr_qp(request_jacobian, EmptyContext, qp)

\* C11: in one and two dimensions, where the handles of the inactive components
\* stand for blocks of active ones, every residual block and every Jacobian
\* block receives from the interior, boundary and mass assemblers, at each
\* quadrature point and in total, exactly what the reference assembly with
\* _dim variables and _dim * _dim Jacobian blocks contributes, and nothing twice.
C11_NoDoubleCounting ==
  (_dim \in {1, 2} /\ pc \in {"interior", "side", "mass"}) =>
    /\ \A qp \in Qps :
         LET one == PerQp(qp)
         IN  /\ \A v \in VarIds : \A i \in Dofs :
                  one.elem_residual[v][i] = RefBlockF(v, i, qp)
             /\ \A row \in VarIds : \A col \in VarIds : \A i \in Dofs : \A j \in Dofs :
                  one.elem_jacobian[<<row, col>>][<<i, j>>] = RefBlockK(row, col, i, j, qp)
    /\ \A v \in VarIds : \A i \in Dofs :
         c.elem_residual[v][i]
           = pre.elem_residual[v][i] + SumTo(LAMBDA qp : RefBlockF(v, i, qp), NQp)
    /\ \A row \in VarIds : \A col \in VarIds : \A i \in Dofs : \A j \in Dofs :
         c.elem_jacobian[<<row, col>>][<<i, j>>]
           = pre.elem_jacobian[<<row, col>>][<<i, j>>]
               + SumTo(LAMBDA qp : RefBlockK(row, col, i, j, qp), NQp)

\* the mass assembler has run in two dimensions, the third handle standing for
\* the second variable's blocks, and has changed those blocks
C11_Witness ==
  /\ pc = "mass" /\ _dim = 2 /\ request_jacobian
  /\ _w_var = _v_var /\ w_dot_var = v_dot_var
  /\ c.elem_residual[RateVar(1)] # pre.elem_residual[RateVar(1)]
  /\ c.elem_jacobian[<<RateVar(1), RateVar(1)>>] # pre.elem_jacobian[<<RateVar(1), RateVar(1)>>]
====
